---- MODULE Spec2Model ----
(***************************************************************************)
(* Heat-method geodesics on a triangle mesh                                *)
(* (apps/sample/trimesh_heatmethod/trimesh_heatmethod.h).                  *)
(*                                                                         *)
(* The pipeline computeHeatMethodGeodesic / computeHeatMethodGeodesicVerbose*)
(* is a state machine over its local variables; pc is the position in the  *)
(* function body.  A double is an exact rational <<n, d>> (d > 0, lowest    *)
(* terms) or one of the IEEE specials NaN = <<0,0>>, +Inf = <<1,0>>,        *)
(* -Inf = <<-1,0>>.  Vertex, face and corner indices are 0-based as in the  *)
(* code; the null face pointer is -1.                                       *)
(***************************************************************************)
EXTENDS Integers, Sequences, FiniteSets, TLC

(***************************************************************************)
(* Doubles: exact rational arithmetic with the IEEE-754 special values.     *)
(***************************************************************************)
Abs(x) == IF x < 0 THEN -x ELSE x

Sgn(x) == IF x < 0 THEN -1 ELSE IF x = 0 THEN 0 ELSE 1

RECURSIVE GCD(_, _)
GCD(a, b) == IF b = 0 THEN a ELSE GCD(b, a % b)

NaN == <<0, 0>>

PInf == <<1, 0>>

NInf == <<-1, 0>>

IsNaN(a) == a = NaN

IsInf(a) == a[2] = 0 /\ a[1] # 0

IsFinite(a) == a[2] > 0

\* The rational n/d (d # 0) in lowest terms with a positive denominator.
Rat(n, d) ==
  LET g == GCD(Abs(n), Abs(d))
      s == IF d < 0 THEN -1 ELSE 1
  IN  <<s * (n \div g), s * (d \div g)>>

R(n) == <<n, 1>>

Zero == <<0, 1>>

RNeg(a) == <<-a[1], a[2]>>

RSign(a) == Sgn(a[1])

RAdd(a, b) ==
  IF IsNaN(a) \/ IsNaN(b) THEN NaN
  ELSE IF IsInf(a) THEN (IF IsInf(b) /\ a # b THEN NaN ELSE a)
  ELSE IF IsInf(b) THEN b
  ELSE LET g == GCD(a[2], b[2])
           l == (a[2] \div g) * b[2]
       IN  Rat(a[1] * (b[2] \div g) + b[1] * (a[2] \div g), l)

RSub(a, b) == RAdd(a, RNeg(b))

RMul(a, b) ==
  IF IsNaN(a) \/ IsNaN(b) THEN NaN
  ELSE IF IsInf(a) \/ IsInf(b)
       THEN (IF a[1] = 0 \/ b[1] = 0 THEN NaN
             ELSE IF RSign(a) * RSign(b) > 0 THEN PInf ELSE NInf)
  ELSE LET g1 == GCD(Abs(a[1]), b[2])
           g2 == GCD(Abs(b[1]), a[2])
       IN  Rat((a[1] \div g1) * (b[1] \div g2), (a[2] \div g2) * (b[2] \div g1))

\* IEEE division.  Every zero divisor of the program is a norm, a square
\* root or a product of them, hence +0: x / 0 has the sign of x.
RDiv(a, b) ==
  IF IsNaN(a) \/ IsNaN(b) THEN NaN
  ELSE IF IsInf(a)
       THEN (IF IsInf(b) THEN NaN
             ELSE IF RSign(a) * (IF b[1] < 0 THEN -1 ELSE 1) > 0 THEN PInf ELSE NInf)
  ELSE IF IsInf(b) THEN Zero
  ELSE IF b[1] = 0
       THEN (IF a[1] = 0 THEN NaN ELSE IF a[1] > 0 THEN PInf ELSE NInf)
  ELSE RMul(a, Rat(b[2], b[1]))

\* a <= 0 as the C++ comparison: false when a is NaN.
RLeqZero(a) == ~IsNaN(a) /\ a[1] <= 0

RLess(a, b) == IsFinite(a) /\ IsFinite(b) /\ a[1] * b[2] < b[1] * a[2]

RAbs(a) == <<Abs(a[1]), a[2]>>

\* Floor of the integer square root.
RECURSIVE IsqrtFrom(_, _)
IsqrtFrom(n, r) == IF (r + 1) * (r + 1) > n THEN r ELSE IsqrtFrom(n, r + 1)

Isqrt(n) == IsqrtFrom(n, 0)

IsSquare(n) == Isqrt(n) * Isqrt(n) = n

\* std::sqrt: exact on the square of a rational; any other value n/d is
\* rounded down to a multiple of 1/d, as the machine rounds to a double.
RSqrt(a) ==
  IF IsNaN(a) \/ a[1] < 0 THEN NaN
  ELSE IF IsInf(a) THEN PInf
  ELSE IF IsSquare(a[1]) /\ IsSquare(a[2]) THEN Rat(Isqrt(a[1]), Isqrt(a[2]))
  ELSE Rat(Isqrt(a[1] * a[2]), a[2])

(***************************************************************************)
(* Eigen::Vector3d                                                         *)
(***************************************************************************)
V3Add(p, q) == <<RAdd(p[1], q[1]), RAdd(p[2], q[2]), RAdd(p[3], q[3])>>

V3Scale(p, s) == <<RMul(p[1], s), RMul(p[2], s), RMul(p[3], s)>>

V3DivS(p, s) == <<RDiv(p[1], s), RDiv(p[2], s), RDiv(p[3], s)>>

V3Neg(p) == <<RNeg(p[1]), RNeg(p[2]), RNeg(p[3])>>

Dot(p, q) == RAdd(RAdd(RMul(p[1], q[1]), RMul(p[2], q[2])), RMul(p[3], q[3]))

Cross(p, q) ==
  << RSub(RMul(p[2], q[3]), RMul(p[3], q[2])),
     RSub(RMul(p[3], q[1]), RMul(p[1], q[3])),
     RSub(RMul(p[1], q[2]), RMul(p[2], q[1])) >>

RMax(a, b) == IF RLess(a, b) THEN b ELSE a

\* Vector3d::norm(), sqrt(x^2 + y^2 + z^2).  A finite vector is scaled by
\* its largest component first, which leaves the value unchanged and keeps
\* the intermediate squares small.
Norm(p) ==
  IF \E k \in 1..3 : IsNaN(p[k]) THEN NaN
  ELSE IF \E k \in 1..3 : IsInf(p[k]) THEN PInf
  ELSE LET m == RMax(RAbs(p[1]), RMax(RAbs(p[2]), RAbs(p[3])))
       IN  IF m = Zero THEN Zero
           ELSE LET q == V3DivS(p, m) IN RMul(m, RSqrt(Dot(q, q)))

V3Zero == <<Zero, Zero, Zero>>

(***************************************************************************)
(* Meshes.  vert[v] is the position of vertex v (vcg::Point3f, integer      *)
(* coordinates, exactly representable), face[f][k] the k-th vertex of face  *)
(* f.  All meshes are planar with integer edge lengths, so that every norm  *)
(* and every Heron area of the program is rational.                         *)
(***************************************************************************)
ZSeq(s) == [i \in 0..(Len(s) - 1) |-> s[i + 1]]

Tri(a, b, c) == ZSeq(<<a, b, c>>)

\* Two 3-4-5 triangles glued along all three edges: a closed 2-manifold.
Pillow ==
  [ name |-> "pillow",
    vert |-> ZSeq(<< <<0, 0, 0>>, <<4, 0, 0>>, <<0, 3, 0>> >>),
    face |-> ZSeq(<< Tri(0, 1, 2), Tri(0, 2, 1) >>) ]

\* The 4 x 3 rectangle covered twice, with a different diagonal on each
\* side: combinatorially a tetrahedron, closed and consistently oriented.
FlatTetra ==
  [ name |-> "flat_tetra",
    vert |-> ZSeq(<< <<0, 0, 0>>, <<4, 0, 0>>, <<4, 3, 0>>, <<0, 3, 0>> >>),
    face |-> ZSeq(<< Tri(0, 1, 2), Tri(0, 2, 3), Tri(0, 3, 1), Tri(1, 3, 2) >>) ]

\* The rhombus with diagonals 6 and 8 covered twice: a closed tetrahedron
\* whose two angles opposite an edge differ.
Rhombus ==
  [ name |-> "rhombus",
    vert |-> ZSeq(<< <<0, 0, 0>>, <<6, 0, 0>>, <<3, 4, 0>>, <<3, -4, 0>> >>),
    face |-> ZSeq(<< Tri(0, 1, 2), Tri(0, 3, 1), Tri(0, 2, 3), Tri(1, 3, 2) >>) ]

\* A closed tetrahedron with exactly one zero-area face: vertices 0, 1, 2
\* are collinear, so face (0, 2, 1) is degenerate.
DegenTetra ==
  [ name |-> "degenerate_tetra",
    vert |-> ZSeq(<< <<0, 0, 0>>, <<4, 0, 0>>, <<8, 0, 0>>, <<4, 3, 0>> >>),
    face |-> ZSeq(<< Tri(0, 1, 3), Tri(1, 2, 3), Tri(0, 3, 2), Tri(0, 2, 1) >>) ]

\* One triangle: every edge is a border edge, no fan closes.
OpenTriangle ==
  [ name |-> "open_triangle",
    vert |-> ZSeq(<< <<0, 0, 0>>, <<4, 0, 0>>, <<0, 3, 0>> >>),
    face |-> ZSeq(<< Tri(0, 1, 2) >>) ]

\* Two triangles sharing one edge: a square with border.
OpenSquare ==
  [ name |-> "open_square",
    vert |-> ZSeq(<< <<0, 0, 0>>, <<4, 0, 0>>, <<4, 3, 0>>, <<0, 3, 0>> >>),
    face |-> ZSeq(<< Tri(0, 1, 2), Tri(0, 2, 3) >>) ]

\* The pillow plus a vertex that no face references.
IsolatedVertex ==
  [ name |-> "isolated_vertex",
    vert |-> ZSeq(<< <<0, 0, 0>>, <<4, 0, 0>>, <<0, 3, 0>>, <<4, 3, 0>> >>),
    face |-> ZSeq(<< Tri(0, 1, 2), Tri(0, 2, 1) >>) ]

\* The 8 x 6 rectangle covered twice, with its centre as a fifth vertex on
\* one side: a closed 2-manifold with vertices of valence 3 and 4.
Pyramid ==
  [ name |-> "pyramid",
    vert |-> ZSeq(<< <<0, 0, 0>>, <<8, 0, 0>>, <<8, 6, 0>>, <<0, 6, 0>>, <<4, 3, 0>> >>),
    face |-> ZSeq(<< Tri(0, 1, 4), Tri(1, 2, 4), Tri(2, 3, 4), Tri(3, 0, 4),
                     Tri(0, 2, 1), Tri(0, 3, 2) >>) ]

Meshes == {Pillow, FlatTetra, Rhombus, Pyramid, DegenTetra, OpenTriangle, OpenSquare,
           IsolatedVertex}

\* The meshes on which the whole pipeline is run: those whose two linear
\* solves stay within the integers of the model checker.
PipelineMeshes == {Pillow, DegenTetra, OpenTriangle, IsolatedVertex}

VN(m) == Cardinality(DOMAIN m.vert)

FN(m) == Cardinality(DOMAIN m.face)

Verts(m) == DOMAIN m.vert

Faces(m) == DOMAIN m.face

NullFace == -1

\* vcg::Point3f operator-
P3Sub(p, q) == <<p[1] - q[1], p[2] - q[2], p[3] - q[3]>>

toEigen(p) == <<R(p[1]), R(p[2]), R(p[3])>>

cotan(v0, v1) == RDiv(Dot(v0, v1), Norm(Cross(v0, v1)))

(***************************************************************************)
(* vcg::tri::UpdateTopology and UpdateNormal                                *)
(***************************************************************************)
RECURSIVE VertexFaceFrom(_, _, _)
VertexFaceFrom(m, k, st) ==
  IF k = 3 * FN(m) THEN st
  ELSE LET f == k \div 3
           j == k % 3
           v == m.face[f][j]
       IN  VertexFaceFrom(m, k + 1,
             [ vfp  |-> [st.vfp EXCEPT ![v] = f],
               vfi  |-> [st.vfi EXCEPT ![v] = j],
               fvfp |-> [st.fvfp EXCEPT ![f][j] = st.vfp[v]],
               fvfi |-> [st.fvfi EXCEPT ![f][j] = st.vfi[v]] ])

\* UpdateTopology::VertexFace: every face is pushed on the front of the
\* incident-face list of each of its vertices.
VertexFace(m) ==
  VertexFaceFrom(m, 0,
    [ vfp  |-> [v \in Verts(m) |-> NullFace],
      vfi  |-> [v \in Verts(m) |-> 0],
      fvfp |-> [f \in Faces(m) |-> [j \in 0..2 |-> NullFace]],
      fvfi |-> [f \in Faces(m) |-> [j \in 0..2 |-> 0]] ])

\* Edge z of face f joins V(z) and V((z+1)%3).
EdgeOf(m, f, z) == {m.face[f][z], m.face[f][(z + 1) % 3]}

EdgeRing(m, f, z) ==
  {e \in Faces(m) \X (0..2) : EdgeOf(m, e[1], e[2]) = EdgeOf(m, f, z)}

LexLess(a, b) == a[1] < b[1] \/ (a[1] = b[1] /\ a[2] < b[2])

\* UpdateTopology::FaceFace: the faces around an edge are linked in a ring;
\* a border edge points to its own face.
RingNext(m, f, z) ==
  LET ring  == EdgeRing(m, f, z)
      after == {e \in ring : LexLess(<<f, z>>, e)}
      from  == IF after = {} THEN ring ELSE after
  IN  CHOOSE e \in from : \A o \in from : e = o \/ LexLess(e, o)

FaceFace(m) ==
  [ ffp |-> [f \in Faces(m) |-> [z \in 0..2 |-> RingNext(m, f, z)[1]]],
    ffi |-> [f \in Faces(m) |-> [z \in 0..2 |-> RingNext(m, f, z)[2]]] ]

\* UpdateNormal::PerFaceNormalized: (V1 - V0) ^ (V2 - V0), divided by its
\* norm when that is positive.
FaceNormal(m, f) ==
  LET p0 == m.vert[m.face[f][0]]
      p1 == m.vert[m.face[f][1]]
      p2 == m.vert[m.face[f][2]]
      n  == Cross(toEigen(P3Sub(p1, p0)), toEigen(P3Sub(p2, p0)))
      l  == Norm(n)
  IN  IF l = Zero THEN n ELSE V3DivS(n, l)

UpdateTopology(m) ==
  [ vfp  |-> VertexFace(m).vfp,
    vfi  |-> VertexFace(m).vfi,
    fvfp |-> VertexFace(m).fvfp,
    fvfi |-> VertexFace(m).fvfi,
    ffp  |-> FaceFace(m).ffp,
    ffi  |-> FaceFace(m).ffi,
    fn   |-> [f \in Faces(m) |-> FaceNormal(m, f)] ]

NoTopology == [vfp |-> <<>>, vfi |-> <<>>, fvfp |-> <<>>, fvfi |-> <<>>,
               ffp |-> <<>>, ffi |-> <<>>, fn |-> <<>>]

\* vcg::face::VFStarVF: the (face, corner) pairs on the incident-face list
\* of vertex v, as a sequence.
RECURSIVE VFStarFrom(_, _, _)
VFStarFrom(t, f, z) ==
  IF f = NullFace THEN <<>>
  ELSE <<<<f, z>>>> \o VFStarFrom(t, t.fvfp[f][z], t.fvfi[f][z])

VFStarVF(t, v) == VFStarFrom(t, t.vfp[v], t.vfi[v])

(***************************************************************************)
(* vcg::face::Pos: a (face, edge, vertex) cursor.                          *)
(***************************************************************************)
\* Pos(fp, vp): the edge is the one before the corner holding vp.
PosOf(m, fp, vp) ==
  LET i == CHOOSE k \in 0..2 : m.face[fp][k] = vp /\ \A l \in 0..(k - 1) : m.face[fp][l] # vp
  IN  [f |-> fp, z |-> (i + 2) % 3, v |-> vp]

\* The other endpoint of the current edge.
FlipV(m, p) ==
  IF m.face[p.f][(p.z + 1) % 3] = p.v
  THEN [p EXCEPT !.v = m.face[p.f][p.z]]
  ELSE [p EXCEPT !.v = m.face[p.f][(p.z + 1) % 3]]

\* The other edge of the current face at the current vertex.
FlipE(m, p) ==
  IF m.face[p.f][(p.z + 1) % 3] = p.v
  THEN [p EXCEPT !.z = (p.z + 1) % 3]
  ELSE [p EXCEPT !.z = (p.z + 2) % 3]

\* The adjacent face across the current edge.
FlipF(t, p) == [p EXCEPT !.f = t.ffp[p.f][p.z], !.z = t.ffi[p.f][p.z]]

(***************************************************************************)
(* Eigen::SparseMatrix<double>: a function on the set of stored (row,      *)
(* column) pairs; an entry that is not stored reads as zero.               *)
(***************************************************************************)
EmptyMatrix == [p \in {} |-> Zero]

Coeff(A, i, j) == IF <<i, j>> \in DOMAIN A THEN A[<<i, j>>] ELSE Zero

\* A.coeffRef(i, j) = x
SetCoeff(A, i, j, x) ==
  [p \in (DOMAIN A) \cup {<<i, j>>} |-> IF p = <<i, j>> THEN x ELSE A[p]]

RECURSIVE SumOver(_, _)
SumOver(f, S) ==
  IF S = {} THEN Zero
  ELSE LET x == CHOOSE y \in S : TRUE
       IN  RAdd(f[x], SumOver(f, S \ {x}))

\* A.row(i).sum(): the sum of the stored entries of row i.
RowSum(A, i) ==
  LET cols == {p \in DOMAIN A : p[1] = i}
  IN  SumOver([p \in cols |-> A[p]], cols)

(***************************************************************************)
(* buildMassMatrix                                                         *)
(***************************************************************************)
EdgeLengths(m, f) ==
  LET p0 == m.vert[m.face[f][0]]
      p1 == m.vert[m.face[f][1]]
      p2 == m.vert[m.face[f][2]]
  IN  << Norm(toEigen(P3Sub(p1, p0))),
         Norm(toEigen(P3Sub(p2, p0))),
         Norm(toEigen(P3Sub(p2, p1))) >>

SemiPerimeter(m, f) ==
  LET e == EdgeLengths(m, f)
  IN  RDiv(RAdd(RAdd(e[1], e[2]), e[3]), R(2))

\* Heron's formula, stored in the face quality field.
HeronArea(m, f) ==
  LET e == EdgeLengths(m, f)
      s == SemiPerimeter(m, f)
  IN  RSqrt(RMul(RMul(RMul(s, RSub(s, e[1])), RSub(s, e[2])), RSub(s, e[3])))

FaceQuality(m) == [f \in Faces(m) |-> HeronArea(m, f)]

RECURSIVE SumQuality(_, _)
SumQuality(q, star) ==
  IF star = <<>> THEN Zero
  ELSE RAdd(q[Head(star)[1]], SumQuality(q, Tail(star)))

\* A mass builder that halves the star area instead of taking a third.
DualCellAreaHalved(t, q, v) == RDiv(SumQuality(q, VFStarVF(t, v)), R(2))

\* The dual-cell area of vertex v: a third of the area of its face star.
DualCellArea(t, q, v) == RDiv(SumQuality(q, VFStarVF(t, v)), R(3))

buildMassMatrix(m, t, q) ==
  [p \in {<<i, i>> : i \in Verts(m)} |-> DualCellArea(t, q, p[1])]

(***************************************************************************)
(* buildCotanMatrix                                                        *)
(***************************************************************************)
\* A fan pass that never crosses the edge: the right apex is read in the
\* current face, like the left one.
FanVerticesSameFace(m, t, pos) ==
  LET p1 == FlipV(m, pos)
      p2 == FlipV(m, FlipE(m, p1))
  IN  [vo |-> p1.v, vl |-> p2.v, vr |-> p2.v, pos |-> pos]

\* One pass of the do-while body up to "back to vp": the vertex opposite to
\* vp on the current edge, the third vertex of the current face (left) and
\* of the face across the edge (right), and the cursor after the moves.
FanVertices(m, t, pos) ==
  LET p1 == FlipV(m, pos)
      p2 == FlipV(m, FlipE(m, p1))
      p3 == FlipE(m, FlipV(m, p2))
      p4 == FlipV(m, FlipE(m, FlipF(t, p3)))
      p5 == FlipV(m, FlipF(t, FlipE(m, FlipV(m, p4))))
  IN  [vo |-> p1.v, vl |-> p2.v, vr |-> p4.v, pos |-> p5]

\* (cotan_l + cotan_r) / 2 for the edge (vp, vo) with apexes vl and vr.
CotanWeight(m, vp, vo, vl, vr) ==
  LET elf == toEigen(P3Sub(m.vert[vo], m.vert[vl]))
      eln == toEigen(P3Sub(m.vert[vp], m.vert[vl]))
      erf == toEigen(P3Sub(m.vert[vp], m.vert[vr]))
      ern == toEigen(P3Sub(m.vert[vo], m.vert[vr]))
  IN  RDiv(RAdd(cotan(elf, eln), cotan(ern, erf)), R(2))

\* A step that crosses the edge without turning to the next one.
NextEdgeNoFlipE(m, t, pos) == FlipF(t, pos)

\* "move to the next edge": pos.FlipF(); pos.FlipE();
NextEdge(m, t, pos) == FlipE(m, FlipF(t, pos))

\* A diagonal without the sign change.
DiagonalEntryNotNegated(L, i) == RowSum(L, i)

\* The value stored on the diagonal of row i.
DiagonalEntry(L, i) == RNeg(RowSum(L, i))

RECURSIVE DiagonalFrom(_, _, _)
DiagonalFrom(L, i, n) ==
  IF i = n THEN L
  ELSE DiagonalFrom(SetCoeff(L, i, i, DiagonalEntry(L, i)), i + 1, n)

(***************************************************************************)
(* computeAverageEdgeLength                                                *)
(***************************************************************************)
TotalSemiPerimeter(m) ==
  SumOver([f \in Faces(m) |-> SemiPerimeter(m, f)], Faces(m))

\* 3/2 is an int division in C++.
EdgeLengthDivisor(m) == (3 \div 2) * FN(m)

computeAverageEdgeLength(m) == RDiv(TotalSemiPerimeter(m), R(EdgeLengthDivisor(m)))

(***************************************************************************)
(* System matrices                                                         *)
(***************************************************************************)
\* mass - timestep * cotanOperator, on the union of the stored patterns.
System1(M, L, ts) ==
  [p \in (DOMAIN M) \cup (DOMAIN L) |->
     IF p \notin DOMAIN L THEN M[p]
     ELSE RSub(Coeff(M, p[1], p[2]), RMul(ts, L[p])) ]

EpsDen == 1000000

\* cotanOperator + 1e-6 * Identity(VN, VN): a dense sum.
System2(L, n) ==
  [p \in (0..(n - 1)) \X (0..(n - 1)) |->
     RAdd(Coeff(L, p[1], p[2]),
          RMul(Rat(1, EpsDen), IF p[1] = p[2] THEN R(1) ELSE Zero)) ]

\* The matrix handed to the second factorization.
SecondSystem(L, n, verb) == IF verb THEN L ELSE System2(L, n)

(***************************************************************************)
(* Eigen::SimplicialLLT.  Only the lower triangle of the matrix is read.    *)
(* The factorization stops with NumericalIssue at the first pivot d <= 0    *)
(* (a NaN pivot passes the comparison); solve() returns without writing     *)
(* its result when info() is not Success.  The pivots of L L^T are those    *)
(* of the square-root-free elimination used here.                           *)
(***************************************************************************)
\* The fill-reducing orderings the factorization may choose.
Orderings(n) ==
  {p \in [0..(n - 1) -> 0..(n - 1)] : \A i, j \in 0..(n - 1) : p[i] = p[j] => i = j}

LowerDense(A, n, p) ==
  [i \in 0..(n - 1) |-> [j \in 0..(n - 1) |->
     IF p[i] >= p[j] THEN Coeff(A, p[i], p[j]) ELSE Coeff(A, p[j], p[i])]]

RECURSIVE Eliminate(_, _, _)
Eliminate(U, k, n) ==
  IF k = n THEN [ok |-> TRUE, U |-> U]
  ELSE IF RLeqZero(U[k][k]) THEN [ok |-> FALSE, U |-> U]
  ELSE Eliminate(
         [i \in 0..(n - 1) |-> [j \in 0..(n - 1) |->
            IF i > k /\ j > k
            THEN RSub(U[i][j], RMul(RDiv(U[k][i], U[k][k]), U[k][j]))
            ELSE U[i][j]]],
         k + 1, n)

\* cholesky.info() after the factorization in ordering p.
LLTInfo(A, n, p) ==
  IF Eliminate(LowerDense(A, n, p), 0, n).ok THEN "Success" ELSE "NumericalIssue"

\* x with A x = b, by forward and back substitution on the factor.
LLTSolve(A, b, n, p) ==
  LET U == Eliminate(LowerDense(A, n, p), 0, n).U
      z[k \in 0..(n - 1)] ==
        RSub(b[p[k]], SumOver([j \in 0..(k - 1) |-> RMul(RDiv(U[j][k], U[j][j]), z[j])],
                              0..(k - 1)))
      y[k \in 0..(n - 1)] ==
        RDiv(RSub(z[k], SumOver([j \in (k + 1)..(n - 1) |-> RMul(U[k][j], y[j])],
                                (k + 1)..(n - 1))),
             U[k][k])
  IN  [i \in 0..(n - 1) |-> y[CHOOSE k \in 0..(n - 1) : p[k] = i]]

\* What an unwritten result vector may hold: a finite value or a NaN.
Indeterminate == {Zero, NaN}

\* The vectors cholesky.solve(b) may return: the solution, or, when the
\* factorization failed, the unwritten result vector.
SolveResults(A, b, n, p) ==
  IF LLTInfo(A, n, p) = "Success" THEN {LLTSolve(A, b, n, p)}
  ELSE [0..(n - 1) -> Indeterminate]

(***************************************************************************)
(* computeVertexGradient, normalizeVectorField, computeVertexDivergence    *)
(***************************************************************************)
FacePoints(m, f) == [k \in 0..2 |-> m.vert[m.face[f][k]]]

\* The edge opposite to corner index of face f.
OppositeEdge(m, f, index) ==
  LET p == FacePoints(m, f)
  IN  IF index = 0 THEN toEigen(P3Sub(p[2], p[1]))
      ELSE IF index = 1 THEN toEigen(P3Sub(p[0], p[2]))
      ELSE toEigen(P3Sub(p[1], p[0]))

\* The contribution of face star[k] to the gradient row of vertex i.
GradientTerm(m, t, q, heat, i, fz) ==
  LET e0 == OppositeEdge(m, fz[1], fz[2])
      e  == V3DivS(e0, Norm(e0))
      n0 == t.fn[fz[1]]
      n  == V3DivS(n0, Norm(n0))
      g  == Cross(n, e)
  IN  V3Scale(g, RDiv(heat[i], RMul(R(2), q[fz[1]])))

RECURSIVE GradientSum(_, _, _, _, _, _)
GradientSum(m, t, q, heat, i, star) ==
  IF star = <<>> THEN V3Zero
  ELSE V3Add(GradientTerm(m, t, q, heat, i, Head(star)),
             GradientSum(m, t, q, heat, i, Tail(star)))

computeVertexGradient(m, t, q, heat) ==
  [i \in Verts(m) |-> GradientSum(m, t, q, heat, i, VFStarVF(t, i))]

normalizeVectorField(m, field) ==
  [i \in Verts(m) |-> V3DivS(field[i], Norm(field[i]))]

NegateField(field) == [i \in DOMAIN field |-> V3Neg(field[i])]

\* el, er, eo of corner index of face f.
DivergenceEdges(m, f, index) ==
  LET p == FacePoints(m, f)
  IN  IF index = 0
      THEN [el |-> toEigen(P3Sub(p[2], p[0])), er |-> toEigen(P3Sub(p[1], p[0])),
            eo |-> toEigen(P3Sub(p[1], p[2]))]
      ELSE IF index = 1
      THEN [el |-> toEigen(P3Sub(p[0], p[1])), er |-> toEigen(P3Sub(p[2], p[1])),
            eo |-> toEigen(P3Sub(p[0], p[2]))]
      ELSE [el |-> toEigen(P3Sub(p[1], p[2])), er |-> toEigen(P3Sub(p[0], p[2])),
            eo |-> toEigen(P3Sub(p[0], p[1]))]

DivergenceTerm(m, row, fz) ==
  LET e    == DivergenceEdges(m, fz[1], fz[2])
      cotl == cotan(e.el, e.eo)
      cotr == cotan(e.er, e.eo)
      el   == V3DivS(e.el, Norm(e.el))
      er   == V3DivS(e.er, Norm(e.er))
  IN  RDiv(RAdd(RMul(cotl, Dot(er, row)), RMul(cotr, Dot(el, row))), R(2))

RECURSIVE DivergenceSum(_, _, _)
DivergenceSum(m, row, star) ==
  IF star = <<>> THEN Zero
  ELSE RAdd(DivergenceTerm(m, row, Head(star)), DivergenceSum(m, row, Tail(star)))

\* divergence(i) before the sanitizing loop.
AccumulatedDivergence(m, t, field, i) == DivergenceSum(m, field[i], VFStarVF(t, i))

\* A sanitizing loop that tests std::isnan only.
SanitizeNaNOnly(x) == IF IsNaN(x) THEN Zero ELSE x

\* "sanitize nan, inf and -inf values"
Sanitize(x) == IF IsNaN(x) \/ IsInf(x) THEN Zero ELSE x

computeVertexDivergence(m, t, field) ==
  [i \in Verts(m) |-> Sanitize(AccumulatedDivergence(m, t, field, i))]

(***************************************************************************)
(* The pipeline.  pc is the position in computeHeatMethodGeodesic[Verbose]; *)
(* the other variables are its arguments and locals.  visited and apex      *)
(* record what the fan walk did: the opposite vertices met in the current   *)
(* fan, and the two apexes used for each matrix entry written.              *)
(***************************************************************************)
VARIABLES pc, verbose, mesh, mult, init_cond, topo, quality, mass,
          cotanOperator, vi, pos, start, visited, apex, avg_edge_len,
          timestep, system1, info1, heatflow, heatGradient,
          normalizedVectorField, divergence, system2, info2, geodesicDistance

vars == <<pc, verbose, mesh, mult, init_cond, topo, quality, mass,
          cotanOperator, vi, pos, start, visited, apex, avg_edge_len,
          timestep, system1, info1, heatflow, heatGradient,
          normalizedVectorField, divergence, system2, info2, geodesicDistance>>

\* Largest time multiplier m tried.
MaxMult == 2

NoPos == [f |-> NullFace, z |-> 0, v |-> 0]

None == <<>>

\* The indicator vector of source vertex s.
Indicator(m, s) == [i \in Verts(m) |-> IF i = s THEN R(1) ELSE Zero]

Blank ==
  /\ quality = None
  /\ mass = EmptyMatrix
  /\ cotanOperator = EmptyMatrix
  /\ vi = 0
  /\ pos = NoPos
  /\ start = NoPos
  /\ visited = <<>>
  /\ apex = EmptyMatrix
  /\ avg_edge_len = Zero
  /\ timestep = Zero
  /\ system1 = EmptyMatrix
  /\ info1 = "None"
  /\ heatflow = None
  /\ heatGradient = None
  /\ divergence = None
  /\ system2 = EmptyMatrix
  /\ info2 = "None"
  /\ geodesicDistance = None

InitOn(meshes) ==
  /\ pc = "start"
  /\ verbose \in BOOLEAN
  /\ mesh \in meshes
  /\ mult \in 1..MaxMult
  /\ init_cond \in {Indicator(mesh, s) : s \in Verts(mesh)}
  /\ normalizedVectorField = None
  /\ topo = NoTopology
  /\ Blank

\* UpdateTopology::VertexFace, ::FaceFace and UpdateNormal::PerFaceNormalized.
Prepare ==
  /\ pc = "start"
  /\ topo' = UpdateTopology(mesh)
  /\ pc' = "topology"
  /\ UNCHANGED <<verbose, mesh, mult, init_cond, quality, mass, cotanOperator,
                 vi, pos, start, visited, apex, avg_edge_len, timestep, system1,
                 info1, heatflow, heatGradient, normalizedVectorField,
                 divergence, system2, info2, geodesicDistance>>

BuildMass ==
  /\ pc = "topology"
  /\ quality' = FaceQuality(mesh)
  /\ mass' = buildMassMatrix(mesh, topo, FaceQuality(mesh))
  /\ vi' = 0
  /\ pc' = "fans"
  /\ UNCHANGED <<verbose, mesh, mult, init_cond, topo, cotanOperator,
                 pos, start, visited, apex, avg_edge_len, timestep, system1,
                 info1, heatflow, heatGradient, normalizedVectorField,
                 divergence, system2, info2, geodesicDistance>>

\* buildCotanMatrix, head of the loop over the vertices: the cursor is set
\* on the face the vertex points to.
FanBegin ==
  /\ pc = "fans"
  /\ vi < VN(mesh)
  /\ topo.vfp[vi] # NullFace
  /\ pos' = PosOf(mesh, topo.vfp[vi], vi)
  /\ start' = PosOf(mesh, topo.vfp[vi], vi)
  /\ visited' = <<>>
  /\ pc' = "walk"
  /\ UNCHANGED <<verbose, mesh, mult, init_cond, topo, quality, mass,
                 cotanOperator, vi, apex, avg_edge_len, timestep, system1,
                 info1, heatflow, heatGradient, normalizedVectorField,
                 divergence, system2, info2, geodesicDistance>>

\* A vertex without incident face has a null VFp(); Pos(fp, vp) reads
\* through it.  The behaviour is undefined: the process dies, or the call
\* goes on and hands back an indeterminate vector.
FanBeginNull ==
  /\ pc = "fans"
  /\ vi < VN(mesh)
  /\ topo.vfp[vi] = NullFace
  /\ \/ /\ pc' = "crashed"
        /\ UNCHANGED geodesicDistance
     \/ /\ pc' = "done"
        /\ geodesicDistance' \in [Verts(mesh) -> Indeterminate]
  /\ UNCHANGED <<verbose, mesh, mult, init_cond, topo, quality, mass,
                 cotanOperator, vi, pos, start, visited, apex, avg_edge_len,
                 timestep, system1, info1, heatflow, heatGradient,
                 normalizedVectorField, divergence, system2, info2>>

\* One iteration of the do-while loop of buildCotanMatrix.
FanStep ==
  /\ pc = "walk"
  /\ LET w    == FanVertices(mesh, topo, pos)
         next == NextEdge(mesh, topo, w.pos)
     IN  /\ cotanOperator' = SetCoeff(cotanOperator, vi, w.vo,
                                      CotanWeight(mesh, vi, w.vo, w.vl, w.vr))
         /\ apex' = SetCoeff(apex, vi, w.vo, {w.vl, w.vr})
         /\ visited' = Append(visited, w.vo)
         /\ pos' = next
         /\ IF next # start
            THEN pc' = "walk" /\ vi' = vi
            ELSE pc' = "fans" /\ vi' = vi + 1
  /\ UNCHANGED <<verbose, mesh, mult, init_cond, topo, quality, mass,
                 start, avg_edge_len, timestep, system1,
                 info1, heatflow, heatGradient, normalizedVectorField,
                 divergence, system2, info2, geodesicDistance>>

\* buildCotanMatrix, "compute diagonal entries".
Diagonal ==
  /\ pc = "fans"
  /\ vi = VN(mesh)
  /\ cotanOperator' = DiagonalFrom(cotanOperator, 0, VN(mesh))
  /\ pc' = "cotan"
  /\ UNCHANGED <<verbose, mesh, mult, init_cond, topo, quality, mass,
                 vi, pos, start, visited, apex, avg_edge_len, timestep, system1,
                 info1, heatflow, heatGradient, normalizedVectorField,
                 divergence, system2, info2, geodesicDistance>>

AssembleSystem1 ==
  /\ pc = "cotan"
  /\ LET avg == computeAverageEdgeLength(mesh)
         ts  == RMul(RMul(R(mult), avg), avg)
     IN  /\ avg_edge_len' = avg
         /\ timestep' = ts
         /\ system1' = System1(mass, cotanOperator, ts)
  /\ pc' = "system1"
  /\ UNCHANGED <<verbose, mesh, mult, init_cond, topo, quality, mass,
                 cotanOperator, vi, pos, start, visited, apex,
                 info1, heatflow, heatGradient, normalizedVectorField,
                 divergence, system2, info2, geodesicDistance>>

\* cholesky1(system1) and cholesky1.solve(init_cond); info() is never read.
SolveHeat ==
  /\ pc = "system1"
  /\ \E p \in Orderings(VN(mesh)) :
       /\ info1' = LLTInfo(system1, VN(mesh), p)
       /\ heatflow' \in SolveResults(system1, init_cond, VN(mesh), p)
  /\ pc' = "heat"
  /\ UNCHANGED <<verbose, mesh, mult, init_cond, topo, quality, mass,
                 cotanOperator, vi, pos, start, visited, apex, avg_edge_len,
                 timestep, system1, heatGradient, normalizedVectorField,
                 divergence, system2, info2, geodesicDistance>>

Gradient ==
  /\ pc = "heat"
  /\ heatGradient' = computeVertexGradient(mesh, topo, quality, heatflow)
  /\ pc' = "gradient"
  /\ UNCHANGED <<verbose, mesh, mult, init_cond, topo, quality, mass,
                 cotanOperator, vi, pos, start, visited, apex, avg_edge_len,
                 timestep, system1, info1, heatflow, normalizedVectorField,
                 divergence, system2, info2, geodesicDistance>>

Normalize ==
  /\ pc = "gradient"
  /\ normalizedVectorField' = normalizeVectorField(mesh, NegateField(heatGradient))
  /\ pc' = "normalized"
  /\ UNCHANGED <<verbose, mesh, mult, init_cond, topo, quality, mass,
                 cotanOperator, vi, pos, start, visited, apex, avg_edge_len,
                 timestep, system1, info1, heatflow, heatGradient,
                 divergence, system2, info2, geodesicDistance>>

Divergence ==
  /\ pc = "normalized"
  /\ divergence' = computeVertexDivergence(mesh, topo, normalizedVectorField)
  /\ pc' = "divergence"
  /\ UNCHANGED <<verbose, mesh, mult, init_cond, topo, quality, mass,
                 cotanOperator, vi, pos, start, visited, apex, avg_edge_len,
                 timestep, system1, info1, heatflow, heatGradient,
                 normalizedVectorField, system2, info2, geodesicDistance>>

AssembleSystem2 ==
  /\ pc = "divergence"
  /\ system2' = SecondSystem(cotanOperator, VN(mesh), verbose)
  /\ pc' = "system2"
  /\ UNCHANGED <<verbose, mesh, mult, init_cond, topo, quality, mass,
                 cotanOperator, vi, pos, start, visited, apex, avg_edge_len,
                 timestep, system1, info1, heatflow, heatGradient,
                 normalizedVectorField, divergence, info2, geodesicDistance>>

\* cholesky2(system2), cholesky2.solve(divergence) and the return.
SolveDistance ==
  /\ pc = "system2"
  /\ \E p \in Orderings(VN(mesh)) :
       /\ info2' = LLTInfo(system2, VN(mesh), p)
       /\ geodesicDistance' \in SolveResults(system2, divergence, VN(mesh), p)
  /\ pc' = "done"
  /\ UNCHANGED <<verbose, mesh, mult, init_cond, topo, quality, mass,
                 cotanOperator, vi, pos, start, visited, apex, avg_edge_len,
                 timestep, system1, info1, heatflow, heatGradient,
                 normalizedVectorField, divergence, system2>>

Next ==
  \/ Prepare
  \/ BuildMass
  \/ FanBegin
  \/ FanBeginNull
  \/ FanStep
  \/ Diagonal
  \/ AssembleSystem1
  \/ SolveHeat
  \/ Gradient
  \/ Normalize
  \/ Divergence
  \/ AssembleSystem2
  \/ SolveDistance

Init == InitOn(PipelineMeshes)

Spec == Init /\ [][Next]_vars

\* The assembly of the operators alone (mass, Laplacian, average edge
\* length, first system matrix), on every mesh.
InitAssembly == InitOn(Meshes)

NextAssembly ==
  \/ Prepare
  \/ BuildMass
  \/ FanBegin
  \/ FanBeginNull
  \/ FanStep
  \/ Diagonal
  \/ AssembleSystem1

SpecAssembly == InitAssembly /\ [][NextAssembly]_vars

\* computeVertexDivergence as a function of its own: any mesh with its
\* adjacency computed, any field with rows from FieldRows.
FieldRows == { <<R(1), R(-2), Zero>>, <<NaN, Zero, Zero>>, <<Zero, PInf, Zero>> }

InitDivergence ==
  /\ pc = "normalized"
  /\ verbose = FALSE
  /\ mesh \in Meshes
  /\ mult = 1
  /\ init_cond = Indicator(mesh, 0)
  /\ normalizedVectorField \in [Verts(mesh) -> FieldRows]
  /\ topo = UpdateTopology(mesh)
  /\ Blank

SpecDivergence == InitDivergence /\ [][Divergence]_vars

(***************************************************************************)
(* Notions the properties are stated with, read off the face list alone.   *)
(***************************************************************************)
FaceVertices(m, f) == {m.face[f][k] : k \in 0..2}

IncidentFaces(m, v) == {f \in Faces(m) : v \in FaceVertices(m, f)}

IsEdge(m, v, o) == v # o /\ \E f \in Faces(m) : {v, o} \subseteq FaceVertices(m, f)

Neighbours(m, v) == {o \in Verts(m) : IsEdge(m, v, o)}

Valence(m, v) == Cardinality(Neighbours(m, v))

\* The vertices opposite to edge (v, o) in the faces that hold it.
EdgeApexes(m, v, o) ==
  {w \in Verts(m) : w \notin {v, o} /\ \E f \in Faces(m) : FaceVertices(m, f) = {v, o, w}}

\* Every edge lies in exactly two faces, which run along it in opposite
\* directions.
EdgeManifold(m) ==
  \A f \in Faces(m) : \A z \in 0..2 :
    /\ Cardinality(EdgeRing(m, f, z)) = 2
    /\ \A e \in EdgeRing(m, f, z) \ {<<f, z>>} : m.face[e[1]][e[2]] = m.face[f][(z + 1) % 3]

RECURSIVE FanComponent(_, _, _)
FanComponent(m, v, S) ==
  LET T == S \cup {g \in IncidentFaces(m, v) :
                     \E f \in S : \E o \in Verts(m) :
                        o # v /\ {v, o} \subseteq FaceVertices(m, f)
                              /\ {v, o} \subseteq FaceVertices(m, g)}
  IN  IF T = S THEN S ELSE FanComponent(m, v, T)

\* The faces around v form one fan.
FanConnected(m, v) ==
  /\ IncidentFaces(m, v) # {}
  /\ FanComponent(m, v, {CHOOSE f \in IncidentFaces(m, v) : TRUE}) = IncidentFaces(m, v)

ClosedManifold(m) == EdgeManifold(m) /\ \A v \in Verts(m) : FanConnected(m, v)

\* Half the norm of the cross product of two edge vectors.
TriangleArea(m, f) ==
  LET p == FacePoints(m, f)
  IN  RDiv(Norm(Cross(toEigen(P3Sub(p[1], p[0])), toEigen(P3Sub(p[2], p[0])))), R(2))

OneDegenerateFace(m) == Cardinality({f \in Faces(m) : TriangleArea(m, f) = Zero}) = 1

SeqSet(q) == {q[k] : k \in 1..Len(q)}

NoRepeats(q) == Cardinality(SeqSet(q)) = Len(q)

\* buildCotanMatrix has returned.
LaplacianBuilt ==
  \/ pc \in {"cotan", "system1", "heat", "gradient", "normalized", "divergence", "system2"}
  \/ pc = "done" /\ info2 # "None"

OffDiagonalSum(L, m, i) ==
  SumOver([j \in Verts(m) \ {i} |-> Coeff(L, i, j)], Verts(m) \ {i})

(***************************************************************************)
(* Properties                                                              *)
(***************************************************************************)
\* C1: after buildCotanMatrix on a closed, consistently oriented 2-manifold
\* mesh, every diagonal entry is minus the sum of the other entries of its
\* row, so that every row with finite entries sums to zero.
RowSumsZero ==
  (LaplacianBuilt /\ ClosedManifold(mesh)) =>
    \A i \in Verts(mesh) :
      /\ Coeff(cotanOperator, i, i) = RNeg(OffDiagonalSum(cotanOperator, mesh, i))
      /\ IsFinite(OffDiagonalSum(cotanOperator, mesh, i)) => RowSum(cotanOperator, i) = Zero

RowSumsZeroWitness ==
  /\ pc = "cotan"
  /\ ClosedManifold(mesh)
  /\ \E i, j \in Verts(mesh) :
       /\ i # j
       /\ IsFinite(Coeff(cotanOperator, i, i)) /\ Coeff(cotanOperator, i, i) # Zero
       /\ IsFinite(Coeff(cotanOperator, i, j)) /\ Coeff(cotanOperator, i, j) # Zero

\* C2: after buildMassMatrix every diagonal entry is a third of the area of
\* the faces incident to its vertex and is not negative, the diagonal sums
\* to the area of the mesh, and nothing is stored off the diagonal.
MassIsThirdOfIncidentArea ==
  pc \notin {"start", "topology"} =>
    /\ \A i \in Verts(mesh) :
         /\ Coeff(mass, i, i) =
              RDiv(SumOver([f \in IncidentFaces(mesh, i) |-> TriangleArea(mesh, f)],
                           IncidentFaces(mesh, i)), R(3))
         /\ IsFinite(Coeff(mass, i, i)) /\ Coeff(mass, i, i)[1] >= 0
    /\ SumOver([i \in Verts(mesh) |-> Coeff(mass, i, i)], Verts(mesh))
         = SumOver([f \in Faces(mesh) |-> TriangleArea(mesh, f)], Faces(mesh))
    /\ DOMAIN mass = {<<i, i>> : i \in Verts(mesh)}

MassWitness ==
  /\ pc = "fans"
  /\ vi = 0
  /\ \E i \in Verts(mesh) :
       Cardinality(IncidentFaces(mesh, i)) >= 3 /\ Coeff(mass, i, i)[1] > 0

\* C3: the verbose and the silent entry point factor the same second
\* system matrix, cotanOperator + 1e-6 * I.
BothVariantsFactorRegularizedSystem ==
  (pc = "system2" \/ (pc = "done" /\ info2 # "None")) =>
    system2 = System2(cotanOperator, VN(mesh))

\* C4: when a factorization reports that the matrix is not positive
\* definite, no later stage runs and no distance vector is returned.
FactorizationFailureHalts ==
  /\ info1 = "NumericalIssue" =>
       pc \notin {"gradient", "normalized", "divergence", "system2", "done"}
  /\ info2 = "NumericalIssue" => pc # "done"

\* C5: on a mesh that is not a closed 2-manifold the fan walk fails;
\* buildCotanMatrix does not return a matrix.
MalformedMeshRejected == ~ClosedManifold(mesh) => ~LaplacianBuilt

\* C6: on a mesh with one zero-area triangle the distance vector returned
\* by computeHeatMethodGeodesic holds no NaN and no infinity.
DegenerateFaceYieldsFiniteDistances ==
  (pc = "done" /\ ~verbose /\ OneDegenerateFace(mesh)) =>
    \A i \in Verts(mesh) : IsFinite(geodesicDistance[i])

\* C7: computeAverageEdgeLength returns the sum of the semi-perimeters of
\* the faces divided by 1.5 times the number of faces.
AverageEdgeLengthDividesByThreeHalves ==
  (pc = "system1" /\ FN(mesh) > 0) =>
    avg_edge_len = RDiv(TotalSemiPerimeter(mesh), RMul(Rat(3, 2), R(FN(mesh))))

\* C8: on a closed, consistently oriented 2-manifold mesh the matrix of
\* buildCotanMatrix is symmetric, the entries (v, o) and (o, v) were both
\* computed from the two vertices opposite to edge (v, o), and an
\* off-diagonal entry is stored only for a mesh edge.
LaplacianSymmetric ==
  (LaplacianBuilt /\ ClosedManifold(mesh)) =>
    \A v, o \in Verts(mesh) :
      v # o =>
        /\ Coeff(cotanOperator, v, o) = Coeff(cotanOperator, o, v)
        /\ <<v, o>> \in DOMAIN cotanOperator =>
             /\ IsEdge(mesh, v, o)
             /\ apex[<<v, o>>] = EdgeApexes(mesh, v, o)
             /\ <<o, v>> \in DOMAIN apex /\ apex[<<o, v>>] = apex[<<v, o>>]

LaplacianSymmetricWitness ==
  /\ pc = "cotan"
  /\ ClosedManifold(mesh)
  /\ \E v, o \in Verts(mesh) :
       /\ <<v, o>> \in DOMAIN cotanOperator
       /\ v # o
       /\ Cardinality(apex[<<v, o>>]) = 2
       /\ IsFinite(cotanOperator[<<v, o>>]) /\ cotanOperator[<<v, o>>] # Zero

\* C9: on a closed 2-manifold mesh the fan walk of every vertex ends each
\* iteration on that vertex and on an incident edge it has not visited, and
\* is back at its start after exactly valence(v) iterations, having visited
\* every incident edge once.
FanWalkVisitsEachEdgeOnce ==
  ClosedManifold(mesh) =>
    /\ pc = "walk" =>
         /\ pos.v = vi
         /\ NoRepeats(visited)
         /\ SeqSet(visited) \subseteq Neighbours(mesh, vi)
         /\ Len(visited) < Valence(mesh, vi)
         /\ FlipV(mesh, pos).v \in Neighbours(mesh, vi) \ SeqSet(visited)
         /\ (visited = <<>>) <=> (pos = start)
    /\ (pc = "fans" /\ vi > 0) =>
         /\ pos = start
         /\ pos.v = vi - 1
         /\ NoRepeats(visited)
         /\ SeqSet(visited) = Neighbours(mesh, vi - 1)
         /\ Len(visited) = Valence(mesh, vi - 1)

FanWalkWitness ==
  /\ pc = "fans"
  /\ vi = VN(mesh)
  /\ ClosedManifold(mesh)
  /\ Len(visited) = 4

\* C10: every entry of the vector computeVertexDivergence returns is
\* finite: a NaN or infinite accumulated value is returned as 0, a finite
\* one unchanged.
DivergenceSanitized ==
  pc = "divergence" =>
    \A i \in Verts(mesh) :
      LET acc == AccumulatedDivergence(mesh, topo, normalizedVectorField, i)
      IN  /\ IsFinite(divergence[i])
          /\ IsFinite(acc) => divergence[i] = acc
          /\ ~IsFinite(acc) => divergence[i] = Zero

DivergenceSanitizedWitness ==
  /\ pc = "divergence"
  /\ \E i, j, k \in Verts(mesh) :
       /\ IsNaN(AccumulatedDivergence(mesh, topo, normalizedVectorField, i))
       /\ IsInf(AccumulatedDivergence(mesh, topo, normalizedVectorField, j))
       /\ IsFinite(AccumulatedDivergence(mesh, topo, normalizedVectorField, k))
       /\ AccumulatedDivergence(mesh, topo, normalizedVectorField, k) # Zero
====
